---- MODULE Spec2Model ----
(***************************************************************************)
(* Histolauncher install orchestrator (src/core/downloader.py): the job    *)
(* registry (_workers, _cancel_flags, _pause_flags), the staged install    *)
(* pipeline (_install_version), the fetcher (download_file), the stage     *)
(* weigher (_compute_overall) and the progress store.                      *)
(*                                                                         *)
(* Threads.  The public API (install/cancel/pause/resume/get_status) is    *)
(* called from the request loop of a single-threaded HTTPServer            *)
(* (src/server/http_server.py:277), so API calls are atomic with respect   *)
(* to one another; they interleave with the job threads at statement       *)
(* granularity.  A job thread is modelled by its program counter th[t].pc. *)
(*                                                                         *)
(* Abstractions.  A progress file write (open "w" + json.dump) is one      *)
(* atomic step.  Message texts built from counters are one fixed string    *)
(* per call site.  A file body is a number of 64 KB chunks.                *)
(***************************************************************************)
EXTENDS Integers, Sequences, FiniteSets, TLC

\* ---------------------------------------------------------------- bounds
MaxThreads == 2      \* job threads ever started
MaxChunks == 2       \* chunks of a transferred body
MaxMembers == 1      \* members of a natives archive
MaxAssets == 2       \* resource keys of an asset index
CpuCount == 4        \* os.cpu_count()
MaxRequests == 2     \* cancel/pause/resume requests made
MaxFaults == 3       \* transfer faults the network injects
MaxCpus == 16        \* os.cpu_count() of a sharding
MaxKeys == 17        \* keys of an index that is sharded

\* ------------------------------------------------------ program constants
Retries == 3
ASSET_THREADS_HIGH == 16
ASSET_THREADS_MED == 8
ASSET_THREADS_LOW == 4

Min(a, b) == IF a < b THEN a ELSE b
Max(a, b) == IF a > b THEN a ELSE b

\* ---------------------------------------------------------- Stage Weigher
StageOrder == <<"version_json", "client", "libraries", "natives", "assets", "finalize">>

STAGE_WEIGHTS == [version_json |-> 5, client |-> 20, libraries |-> 25,
                  natives |-> 15, assets |-> 25, finalize |-> 10]

\* The loop of _compute_overall over the ordered dict, on the exact value
\* scaled by den: stage_percent is the float num * 100 / den.
RECURSIVE OverallLoop(_, _, _, _, _)
OverallLoop(i, stage, num, den, total) ==
  IF i > Len(StageOrder) THEN total
  ELSE IF StageOrder[i] = stage
       THEN total + STAGE_WEIGHTS[StageOrder[i]] * num
       ELSE OverallLoop(i + 1, stage, num, den, total + STAGE_WEIGHTS[StageOrder[i]] * den)

\* mutant: the loop does not break at the current stage
RECURSIVE OverallNoBreak(_, _, _, _, _)
OverallNoBreak(i, stage, num, den, total) ==
  IF i > Len(StageOrder) THEN total
  ELSE IF StageOrder[i] = stage
       THEN OverallNoBreak(i + 1, stage, num, den, total + STAGE_WEIGHTS[StageOrder[i]] * num)
       ELSE OverallNoBreak(i + 1, stage, num, den, total + STAGE_WEIGHTS[StageOrder[i]] * den)

compute_overall_nobreak(stage, num, den) ==
  Min(100 * den, Max(0, OverallNoBreak(1, stage, num, den, 0)))

\* _compute_overall(stage, num*100/den), times den
compute_overall(stage, num, den) ==
  Min(100 * den, Max(0, OverallLoop(1, stage, num, den, 0)))

\* --------------------------------------------------------- Progress Store
NoProgress == [status |-> "absent", stage |-> "", stage_percent |-> 0,
               overall_percent |-> 0, message |-> ""]

\* mutant: the client stage reports under the name of the last stage
update_progress_misnamed(stage, num, den, message) ==
  [status |-> "downloading", stage |-> IF stage = "client" THEN "finalize" ELSE stage,
   stage_percent |-> (100 * num) \div den,
   overall_percent |-> compute_overall(stage, num, den) \div den,
   message |-> message]

\* the record _update_progress writes: int(stage_percent), int(overall)
update_progress(stage, num, den, message) ==
  [status |-> "downloading", stage |-> stage,
   stage_percent |-> (100 * num) \div den,
   overall_percent |-> compute_overall(stage, num, den) \div den,
   message |-> message]

\* the record one iteration of the _check_pause loop writes, from the record read
paused_record(prog) ==
  [status |-> "paused",
   stage |-> IF prog.status = "absent" THEN "downloading" ELSE prog.stage,
   stage_percent |-> prog.stage_percent,
   overall_percent |-> prog.overall_percent,
   message |-> "Paused"]

\* mutant: the terminal record keeps the percentages of the finalize stage's start
installed_record_low ==
  [status |-> "installed", stage |-> "finalize", stage_percent |-> 0,
   overall_percent |-> 90, message |-> "Installation complete"]

installed_record ==
  [status |-> "installed", stage |-> "finalize", stage_percent |-> 100,
   overall_percent |-> 100, message |-> "Installation complete"]

cancelled_record ==
  [status |-> "cancelled", stage |-> "finalize", stage_percent |-> 0,
   overall_percent |-> 0, message |-> "Installation cancelled"]

error_record(msg) ==
  [status |-> "error", stage |-> "finalize", stage_percent |-> 0,
   overall_percent |-> 0, message |-> msg]

\* ------------------------------------------------------------------- keys
\* A category is a sequence of letters; capitals are the upper-case letters.
upper(c) == CASE c = "r" -> "R" [] c = "l" -> "L" [] OTHER -> c
lower(c) == CASE c = "R" -> "r" [] c = "L" -> "l" [] OTHER -> c

_normalize_storage_category(name) ==
  IF name = <<>> THEN <<"R", "e", "l", "e", "a", "s", "e">>
  ELSE <<upper(name[1])>> \o [j \in 1..(Len(name) - 1) |-> lower(name[j + 1])]

\* version_key = f"{storage_category}/{version_id}"
_version_key(version_id, storage_category) == [cat |-> storage_category, id |-> version_id]

\* mutants: every version counts as modern; no version does
_is_modern_assets_always(version_id) == TRUE
_is_modern_assets_never(version_id) == FALSE

\* version ids are the dot-separated parts before the first "-"; a part that
\* int() rejects is written as a negative number
_is_modern_assets(version_id) ==
  LET major == IF Len(version_id) > 0 THEN version_id[1] ELSE -1
      minor == IF Len(version_id) > 1 THEN version_id[2] ELSE 0
  IN IF major < 0 \/ minor < 0 THEN TRUE
     ELSE \/ major > 1
          \/ major = 1 /\ minor >= 6

KeyA == _version_key(<<1, 20>>, <<"r", "l">>)
KeyB == _version_key(<<1, 20>>, <<"R", "l">>)
KeyL == _version_key(<<1, 5>>, <<"r", "l">>)
AllKeys == {KeyA, KeyB, KeyL}

\* os.path.join(DOWNLOAD_DIR, storage_fs, version_id)
version_dir(k) == [cat |-> _normalize_storage_category(k.cat), id |-> k.id]
AllDirs == {version_dir(k) : k \in AllKeys}

Tids == 1..MaxThreads

\* _choose_asset_threads()
_choose_asset_threads(cpus) ==
  IF cpus >= 12 THEN ASSET_THREADS_HIGH
  ELSE IF cpus >= 6 THEN ASSET_THREADS_MED
  ELSE ASSET_THREADS_LOW

\* Asset Pool worker threads of job thread t: one per possible non-empty shard
MaxWorkers == Min(_choose_asset_threads(CpuCount), MaxAssets)
WorkerId(t, w) == MaxThreads + (t - 1) * MaxWorkers + w
WorkerIds(t) == {WorkerId(t, w) : w \in 1..MaxWorkers}
AllThreads == 1..(MaxThreads + MaxThreads * MaxWorkers)

\* ------------------------------------------------------------ descriptors
\* A library file name "head-...-last.jar": head is the text before the
\* first "-", ver the dotted numbers of the last part (<<>> if not numeric).
Lib(head, ver, art, nat) == [head |-> head, ver |-> ver, art |-> art, nat |-> nat]

\* The metadata document (vjson) and catalog entry type the collaborator returns.
\* assets: the hashes of the index's objects, in key order ("": no hash);
\* hasIndex: assetIndex has a url and an id.
VJson(client, libs, hasIndex, assets, vtype) ==
  [client |-> client, libs |-> libs, hasIndex |-> hasIndex, assets |-> assets, vtype |-> vtype]
NoVJ == VJson("none", <<>>, FALSE, <<>>, "")

VJNoClient == VJson("missing", <<>>, FALSE, <<>>, "")
VJMin      == VJson("ok", <<>>, FALSE, <<>>, "")
VJImage    == VJson("ok", <<>>, FALSE, <<>>, "release")
VJLibs     == VJson("ok", <<Lib("lwjgl", <<3, 2, 1>>, TRUE, 0), Lib("guava", <<>>, TRUE, 1)>>,
                    FALSE, <<>>, "")
\* a library list with a repeated entry, two versions of one module, and an entry without artifact
VJDup      == VJson("ok", <<Lib("lwjgl", <<3, 2, 1>>, TRUE, 0), Lib("guava", <<>>, TRUE, 0),
                            Lib("lwjgl", <<3, 2, 2>>, TRUE, 0), Lib("guava", <<>>, TRUE, 0),
                            Lib("jinput", <<>>, FALSE, 0)>>, FALSE, <<>>, "")
\* two versions of one module whose numbers differ in their count of digits
VJVers     == VJson("ok", <<Lib("lwjgl", <<3, 2, 10>>, TRUE, 0), Lib("lwjgl", <<3, 3, 1>>, TRUE, 0)>>,
                    FALSE, <<>>, "")
VJAssets   == VJson("ok", <<>>, TRUE, [n \in 1..MaxAssets |-> IF n = 1 THEN "h1" ELSE "h2"], "")

\* an index whose keys all name one object
VJSame     == VJson("ok", <<>>, TRUE, [n \in 1..MaxAssets |-> "h1"], "")
\* the hashes of the documents' objects
Hashes == {"h1", "h2"}

\* exceptions: RuntimeError("cancelled"), RuntimeError(msg), any other Exception
Exc(type, msg) == [type |-> type, msg |-> msg]
NoExc == Exc("none", "")
Cancelled == Exc("RuntimeError", "cancelled")
MetaErrors == {"failed to find version in manifest", "manifest entry missing version URL",
               "failed to fetch version json"}

\* ----------------------------------------------------------------- state
VARIABLES
  sc,            \* the run's inputs: keys and documents requested, and what the environment may do
  workers,       \* _workers: key -> thread (0: no entry)
  cancel_flags,  \* _cancel_flags: key -> "absent" | "True"
  pause_flags,   \* _pause_flags: key -> "absent" | "True" | "False"
  progress,      \* progress store: key -> record (NoProgress: no file)
  dirs,          \* install directories that exist
  cache,         \* library cache: paths holding a body with the declared hash
  objects,       \* content store: hashes that have an object file
  files,         \* content store: the bodies of the ".part" files and of the objects, and the open files
  manifests,     \* install directory -> classpath of its data.ini (<<>>: no manifest)
  nthreads,      \* job threads started so far
  th,            \* job threads: program counter and locals of runner/_install_version
  nreq,          \* cancel/pause/resume requests made so far
  faults,        \* transfer faults injected so far
  gh,            \* history: cancel was requested while the job was installing
  wStage, wPct, wOut,  \* Stage Weigher: an evaluation of _compute_overall
  sh,            \* sharding: the cpu count, the number of keys and the chunks built from them
  fetch          \* one call of download_file by a single caller: its position, locals and files

jvars == <<sc, workers, cancel_flags, pause_flags, progress, dirs, cache, objects, files, manifests, nthreads,
          th, nreq, faults, gh>>
wvars == <<wStage, wPct, wOut, sh, fetch>>
vars == <<sc, workers, cancel_flags, pause_flags, progress, dirs, cache, objects, files, manifests, nthreads,
          th, nreq, faults, gh, wStage, wPct, wOut, sh, fetch>>

\* owner: 0 for a job thread (runner), the job thread for an Asset Pool worker;
\* shard, n: a worker's keys and its position; done, lock: done_assets and the
\* holder of the pool's lock, kept in the record of the job thread.
\* History, kept in the record of the job thread until the thread ends:
\* tries counts the urlopen calls of the current download_file call; failed:
\* a download_file call of the client, libraries, natives or assets stage
\* raised after its last attempt; aborted: a cancel test of the job found the flag set.
\* imgexc: the exception the "except Exception: pass" of the image fetch caught.
\* born: the number of control requests made before the job was started;
\* erased: the clearing at the start of the job removed a flag that was set.
\* body: the chunk of an object's response just read ("good": of the body with
\* the expected hash, "bad": of another body).
Unused == [pc |-> "unused", key |-> KeyA, full |-> FALSE, pausing |-> FALSE, exc |-> NoExc,
           cancelled |-> FALSE, vj |-> NoVJ, i |-> 0, pos |-> 0, ctx |-> "", att |-> 0,
           got |-> 0, last |-> NoExc, ret |-> "", copied |-> <<>>, result |-> "",
           owner |-> 0, shard |-> <<>>, n |-> 0, hasProg |-> FALSE, prog |-> NoProgress,
           done |-> 0, lock |-> 0, tries |-> 0, failed |-> FALSE, aborted |-> FALSE,
           body |-> "", imgexc |-> NoExc, born |-> 0, erased |-> FALSE]

IsAlive(t) == t # 0 /\ th[t].pc \notin {"unused", "dead"}
\* the live pipeline (runner) threads of key k
LiveThreads(k) == {t \in Tids : IsAlive(t) /\ th[t].key = k}

\* ------------------------------------------------------------- public API
is_installing(k) == workers[k] # 0 /\ IsAlive(workers[k])

read_progress(k) == progress[k]

get_install_status(k) ==
  LET prog == read_progress(k) IN
  IF prog.status = "absent" THEN prog
  ELSE IF pause_flags[k] = "True" THEN [prog EXCEPT !.status = "paused"]
  ELSE prog

\* install_version(version_id, storage_category, full_assets, background=True)
install_version(k, full) ==
  /\ nthreads < sc.jobs
  /\ IF workers[k] # 0 /\ IsAlive(workers[k])
     THEN UNCHANGED <<workers, nthreads, th>>
     ELSE /\ nthreads' = nthreads + 1
          /\ workers' = [workers EXCEPT ![k] = nthreads + 1]
          /\ th' = [th EXCEPT ![nthreads + 1] = [Unused EXCEPT !.pc = "clear", !.key = k, !.full = full,
                                                                !.born = nreq]]
  /\ UNCHANGED <<sc, cancel_flags, pause_flags, progress, dirs, cache, objects, files, manifests,
                 nreq, faults, gh, wvars>>

\* the job a request for k is made on: the live registered worker
JobOf(k) == IF is_installing(k) THEN workers[k] ELSE 0

\* mutant: cancel also writes the cancelled record
cancel_install_writes(k) ==
  /\ nreq < sc.reqs
  /\ nreq' = nreq + 1
  /\ cancel_flags' = [cancel_flags EXCEPT ![k] = "True"]
  /\ pause_flags' = [pause_flags EXCEPT ![k] = "absent"]
  /\ progress' = [progress EXCEPT ![k] = cancelled_record]
  /\ gh' = IF JobOf(k) = 0 THEN gh ELSE [gh EXCEPT ![JobOf(k)] = TRUE]
  /\ UNCHANGED <<sc, workers, dirs, cache, objects, files, manifests, nthreads, th, faults, wvars>>

cancel_install(k) ==
  /\ nreq < sc.reqs
  /\ nreq' = nreq + 1
  /\ cancel_flags' = [cancel_flags EXCEPT ![k] = "True"]
  /\ pause_flags' = [pause_flags EXCEPT ![k] = "absent"]
  /\ gh' = IF JobOf(k) = 0 THEN gh ELSE [gh EXCEPT ![JobOf(k)] = TRUE]
  /\ UNCHANGED <<sc, workers, progress, dirs, cache, objects, files, manifests, nthreads, th, faults, wvars>>

pause_install(k) ==
  /\ nreq < sc.reqs
  /\ nreq' = nreq + 1
  /\ pause_flags' = [pause_flags EXCEPT ![k] = "True"]
  /\ UNCHANGED <<sc, workers, cancel_flags, progress, dirs, cache, objects, files, manifests, nthreads, th,
                 faults, gh, wvars>>

resume_install(k) ==
  /\ nreq < sc.reqs
  /\ nreq' = nreq + 1
  /\ pause_flags' = [pause_flags EXCEPT ![k] = "False"]
  /\ UNCHANGED <<sc, workers, cancel_flags, progress, dirs, cache, objects, files, manifests, nthreads, th,
                 faults, gh, wvars>>

\* --------------------------------------------------- cancellation / pause
\* the job thread of thread t: t itself, or the thread that started pool worker t
JobThread(t) == IF th[t].owner = 0 THEN t ELSE th[t].owner

\* a thread that has ended
Ended(r) == [Unused EXCEPT !.pc = "dead", !.key = r.key, !.owner = r.owner]
\* the locals the runner still uses once _install_version has returned or raised
Unwound(r, e, result) == [Unused EXCEPT !.pc = "finally", !.key = r.key, !.exc = e,
                                        !.cancelled = (result = "cancelled"), !.result = result,
                                        !.failed = r.failed, !.aborted = r.aborted,
                                        !.imgexc = r.imgexc, !.born = r.born,
                                        !.erased = r.erased]

\* where an exception raised at this point of thread record r lands
RaiseAt(r, site, e) ==
  CASE site = "top"     -> [r EXCEPT !.pc = "except", !.exc = e, !.pausing = FALSE]
    [] site = "dltry"   -> [r EXCEPT !.pc = "dl_except", !.last = e, !.pausing = FALSE, !.body = ""]
    [] site = "caller"  -> IF r.ctx = "image"
                           THEN [r EXCEPT !.pc = "fin50", !.pausing = FALSE, !.ctx = "", !.ret = "",
                                          !.att = 0, !.got = 0, !.last = NoExc, !.tries = 0,
                                          !.imgexc = e]
                           ELSE IF r.owner # 0
                           THEN Ended(r)
                           ELSE [r EXCEPT !.pc = "except", !.exc = e, !.pausing = FALSE]
    [] site = "extract" -> [r EXCEPT !.pc = "except", !.pausing = FALSE,
                                     !.exc = Exc("RuntimeError", "failed to extract natives")]

\* What the code after a checkpoint does before the thread's next access to
\* shared state: the records it can continue in, and whether the network
\* injected a fault on the way.
Ok(rec) == [rec |-> rec, fault |-> FALSE, failed |-> FALSE]
Fault(r, e) == [rec |-> RaiseAt(r, "dltry", e), fault |-> TRUE, failed |-> FALSE]
Allowed(outs) == {o \in outs : ~o.fault \/ faults < sc.faults}

\* mutant: the loop goes on while the key has a flag at all, set or not
_check_pause_any(t, outs) ==
  LET r == th[t]  k == r.key IN
  IF pause_flags[k] # "absent"
  THEN /\ th' = [th EXCEPT ![t].pausing = TRUE]
       /\ progress' = [progress EXCEPT ![k] = paused_record(read_progress(k))]
       /\ UNCHANGED faults
  ELSE /\ \E o \in Allowed(outs) :
            /\ th' = [th EXCEPT ![t] = [o.rec EXCEPT !.pausing = FALSE],
                                ![JobThread(t)].failed = @ \/ o.failed]
            /\ faults' = IF o.fault THEN faults + 1 ELSE faults
       /\ UNCHANGED progress

\* _check_pause(version_key): one test of the loop condition, with the body of
\* the loop (read, write "paused", sleep) when the flag is set.  In the job
\* thread nothing else writes the record between the read and the write, and
\* the body is one step; in a pool worker the read and the write are two.
_check_pause(t, outs) ==
  LET r == th[t]  k == r.key IN
  IF r.hasProg
  THEN /\ progress' = [progress EXCEPT ![k] = paused_record(r.prog)]
       /\ th' = [th EXCEPT ![t].hasProg = FALSE, ![t].prog = NoProgress]
       /\ UNCHANGED faults
  ELSE IF pause_flags[k] = "True"
  THEN /\ IF r.owner = 0
          THEN /\ th' = [th EXCEPT ![t].pausing = TRUE]
               /\ progress' = [progress EXCEPT ![k] = paused_record(read_progress(k))]
          ELSE /\ th' = [th EXCEPT ![t].pausing = TRUE, ![t].hasProg = TRUE,
                                   ![t].prog = read_progress(k)]
               /\ UNCHANGED progress
       /\ UNCHANGED faults
  ELSE /\ \E o \in Allowed(outs) :
            /\ th' = [th EXCEPT ![t] = [o.rec EXCEPT !.pausing = FALSE],
                                ![JobThread(t)].failed = @ \/ o.failed]
            /\ faults' = IF o.fault THEN faults + 1 ELSE faults
       /\ UNCHANGED progress

\* _maybe_abort(version_key): the cancel test, then _check_pause
_maybe_abort(t, outs, site) ==
  LET r == th[t]  k == r.key IN
  IF ~r.pausing /\ cancel_flags[k] = "True"
  THEN /\ th' = [th EXCEPT ![t] = RaiseAt(r, site, Cancelled), ![JobThread(t)].aborted = TRUE]
       /\ UNCHANGED <<progress, faults>>
  ELSE _check_pause(t, outs)

\* a checkpoint followed by pc next
Checkpoint(t, next, site) == _maybe_abort(t, {Ok([th[t] EXCEPT !.pc = next])}, site)

Goto(t, next) == th' = [th EXCEPT ![t].pc = next]
Write(t, rec) == progress' = [progress EXCEPT ![th[t].key] = rec]

\* ------------------------------------------------------------ Version Rules
StartsWithLwjgl(head) == head \in {"lwjgl", "lwjgl_util"}

NDigits(c) == IF c < 10 THEN 1 ELSE IF c < 100 THEN 2 ELSE 3
Pow10(n) == IF n = 1 THEN 10 ELSE IF n = 2 THEN 100 ELSE 1000

\* int(ver_part.replace(".", "")): the decimal digits of the components, joined
RECURSIVE DigitsInt(_, _)
DigitsInt(ver, acc) ==
  IF ver = <<>> THEN acc
  ELSE DigitsInt(Tail(ver), acc * Pow10(NDigits(Head(ver))) + Head(ver))

\* _parse_lwjgl_version(lib_basename): -1 stands for None
_parse_lwjgl_version(lib) ==
  IF ~StartsWithLwjgl(lib.head) THEN -1
  ELSE IF lib.ver = <<>> THEN -1
  ELSE DigitsInt(lib.ver, 0)

\* highest_versions[module] after the loop over libs (-1: module not in the dict)
highest_versions(libs, module) ==
  LET vs == {_parse_lwjgl_version(libs[n]) : n \in {m \in 1..Len(libs) : libs[m].art /\ libs[m].head = module}}
  IN IF vs \subseteq {-1} THEN -1 ELSE CHOOSE v \in vs : \A u \in vs : u <= v

_should_skip_library_for_version(lib, libs) ==
  LET ver == _parse_lwjgl_version(lib)
      highest == highest_versions(libs, lib.head)
  IN ver # -1 /\ highest # -1 /\ ver < highest

\* ------------------------------------------------------------ job threads
LibPath(lib) == <<lib.head, lib.ver, "artifact">>
NatPath(lib) == <<lib.head, lib.ver, "classifier">>
NatCount(libs) == Cardinality({n \in 1..Len(libs) : libs[n].nat > 0})
NatBefore(libs, i) == Cardinality({n \in 1..(i - 1) : libs[n].nat > 0})
\* the next library at or after i that has a classifier entry (0: none)
NextNat(libs, i) ==
  LET c == {n \in i..Len(libs) : libs[n].nat > 0}
  IN IF c = {} THEN 0 ELSE CHOOSE n \in c : \A m \in c : n <= m

\* chunks of the body a download in context ctx transfers
BodyChunks(ctx) == IF ctx = "client" THEN MaxChunks ELSE 1
\* whether the call passes expected_sha1
HasSha(ctx) == ctx # "image"
\* whether the destination lies in the install directory
InVersionDir(ctx) == ctx \in {"client", "image"}

\* The files of the content store.  A body is "none" (no file), "empty" (just
\* opened for writing), "good" (its hash is the expected one) or "bad".
\* fd[t]: the file thread t has open for writing: the hash it belongs to, and
\* where that file is now: at the ".part" path, at the object path, or unlinked.
NoFd == [h |-> "", at |-> ""]
\* stale: the paths of the library cache that hold a file with another hash
\* than the declared one (cache: the paths that hold one with the declared hash).
NoFiles == [part |-> [h \in Hashes |-> "none"], obj |-> [h \in Hashes |-> "none"],
            fd |-> [t \in AllThreads |-> NoFd], stale |-> {}]

\* open(tmp_path, "wb"), line 209: creates the file or truncates the one there
Open(fs, t, h) == [fs EXCEPT !.part[h] = "empty", !.fd[t] = [h |-> h, at |-> "part"]]
\* f.write(chunk), line 216: into the file the descriptor refers to
WriteChunk(fs, t, h, q) ==
  CASE fs.fd[t].at = "part" -> [fs EXCEPT !.part[h] = q]
    [] fs.fd[t].at = "obj"  -> [fs EXCEPT !.obj[h] = q]
    [] OTHER                -> fs
\* leaving "with open(...) as f"
Close(fs, t) == [fs EXCEPT !.fd[t] = NoFd]
\* os.remove of the ".part" file (line 225) or of the object (line 231)
Unlink(fs, h, at) ==
  [fs EXCEPT ![at][h] = "none",
             !.fd = [u \in AllThreads |-> IF fs.fd[u] = [h |-> h, at |-> at]
                                          THEN [h |-> h, at |-> "gone"] ELSE fs.fd[u]]]
\* os.rename(tmp_path, dest_path), line 232: the ".part" file takes the place of the object
Rename(fs, h) ==
  LET g == Unlink(fs, h, "obj") IN
  [g EXCEPT !.obj[h] = g.part[h], !.part[h] = "none",
            !.fd = [u \in AllThreads |-> IF g.fd[u] = [h |-> h, at |-> "part"]
                                         THEN [h |-> h, at |-> "obj"] ELSE g.fd[u]]]

\* a call of download_file(..., version_key) that returns to pc ret
Call(r, ctx, ret) == [r EXCEPT !.pc = "dl_enter", !.ctx = ctx, !.ret = ret, !.att = 1,
                               !.got = 0, !.last = NoExc, !.tries = 0]

Frame == <<sc, workers, cancel_flags, pause_flags, nthreads, objects, files, nreq, faults, gh, wvars>>

\* mutant: the flag stays
Popped_not(flags, k) == flags

\* _cancel_flags.pop(version_key, None), _pause_flags.pop(version_key, None), lines 484-485
Popped(flags, k) == [flags EXCEPT ![k] = "absent"]

\* _install_version lines 481-523: clear the flags, metadata, install directory
StartStage(t) ==
  LET r == th[t]  k == r.key IN
  /\ r.pc \in {"clear", "vj0", "meta", "vj100", "mkdir", "chk1"}
  /\ UNCHANGED <<sc, workers, nthreads, cache, objects, files, manifests, nreq, faults, gh, wvars>>
  /\ CASE r.pc = "clear" ->
            /\ cancel_flags' = Popped(cancel_flags, k)
            /\ pause_flags' = Popped(pause_flags, k)
            /\ th' = [th EXCEPT ![t].pc = "vj0",
                                ![t].erased = (cancel_flags[k] = "True" \/ pause_flags[k] = "True")]
            /\ UNCHANGED <<progress, dirs>>
       [] r.pc = "vj0" ->
            /\ Write(t, update_progress("version_json", 0, 1, "Fetching version metadata..."))
            /\ Goto(t, "meta")
            /\ UNCHANGED <<cancel_flags, pause_flags, dirs>>
       [] r.pc = "meta" ->
            /\ \/ \E v \in sc.docs : th' = [th EXCEPT ![t].pc = "vj100", ![t].vj = v]
               \/ \E m \in MetaErrors : th' = [th EXCEPT ![t] = RaiseAt(r, "top", Exc("RuntimeError", m))]
            /\ UNCHANGED <<cancel_flags, pause_flags, progress, dirs>>
       [] r.pc = "vj100" ->
            /\ Write(t, update_progress("version_json", 1, 1, "Version metadata loaded"))
            /\ Goto(t, "mkdir")
            /\ UNCHANGED <<cancel_flags, pause_flags, dirs>>
       [] r.pc = "mkdir" ->
            /\ \/ /\ dirs' = dirs \cup {version_dir(k)}
                  /\ Goto(t, "chk1")
               \/ /\ th' = [th EXCEPT ![t] = RaiseAt(r, "top", Exc("OSError", "makedirs failed"))]
                  /\ UNCHANGED dirs
            /\ UNCHANGED <<cancel_flags, pause_flags, progress>>
       [] r.pc = "chk1" ->
            /\ Checkpoint(t, "client_info", "top")
            /\ UNCHANGED <<cancel_flags, pause_flags, dirs>>

\* lines 525-578: the client binary
ClientStage(t) ==
  LET r == th[t] IN
  /\ r.pc \in {"client_info", "client0", "client100", "chk2"}
  /\ UNCHANGED <<Frame, dirs, cache, manifests>>
  /\ CASE r.pc = "client_info" ->
            /\ th' = [th EXCEPT ![t] =
                 IF r.vj.client = "missing"
                 THEN RaiseAt(r, "top", Exc("RuntimeError", "version json missing client download info"))
                 ELSE IF r.vj.client = "nourl"
                 THEN RaiseAt(r, "top", Exc("RuntimeError", "client download url missing"))
                 ELSE [r EXCEPT !.pc = "client0"]]
            /\ UNCHANGED progress
       [] r.pc = "client0" ->
            /\ Write(t, update_progress("client", 0, 1, "Downloading client.jar..."))
            /\ th' = [th EXCEPT ![t] = Call(r, "client", "client100")]
       [] r.pc = "client100" ->
            /\ Write(t, update_progress("client", 1, 1, "client.jar downloaded"))
            /\ Goto(t, "chk2")
       [] r.pc = "chk2" -> Checkpoint(t, "libs_begin", "top")

\* the record progress_cb writes after a chunk, per call site
CallbackWrite(t) ==
  LET r == th[t]  libs == r.vj.libs IN
  CASE r.ctx = "client" -> Write(t, update_progress("client", r.got, BodyChunks("client"), "Downloading client.jar..."))
    [] r.ctx = "lib"    -> Write(t, update_progress("libraries", r.i - 1, Max(1, Len(libs)), "Downloading library"))
    [] r.ctx = "nat"    -> Write(t, update_progress("natives", NatBefore(libs, r.i), Max(1, NatCount(libs)), "Downloading natives"))
    [] r.ctx = "index"  -> Write(t, update_progress("assets", 0, 1, "Downloading asset index..."))

\* whether the call site's progress_cb writes a record (asset_cb, img_cb: no)
CallbackWrites(ctx) == ctx \in {"client", "lib", "nat", "index"}

\* download_file returns to its caller
Return(r) == [r EXCEPT !.pc = r.ret, !.ctx = "", !.ret = "", !.att = 0, !.got = 0, !.last = NoExc,
                       !.tries = 0, !.body = ""]

\* lines 196-209: urlopen and open(tmp_path) of one attempt
Attempt(r, ds) ==
  LET a == [r EXCEPT !.tries = r.tries + 1, !.body = ""] IN
  IF InVersionDir(a.ctx) /\ version_dir(a.key) \notin ds
  THEN {Ok(RaiseAt(a, "dltry", Exc("OSError", "no such directory")))}
  ELSE {Ok([a EXCEPT !.pc = "dl_chk", !.got = 0]), Fault(a, Exc("URLError", "transport error"))}

\* the mutant of MoreAttempts: one attempt more than retries
MoreAttempts_plus1(r) == r.att <= Retries

\* "for attempt in range(1, retries + 1)": another attempt follows attempt r.att
MoreAttempts(r) == r.att < Retries

\* the response delivers a chunk of another body than the one asked for
Corrupt(r) == [rec |-> [r EXCEPT !.pc = "dl_cb", !.got = r.got + 1, !.body = "bad"],
               fault |-> TRUE, failed |-> FALSE]

\* lines 214-233: resp.read, then at end of body the hash check and the rename
\* (of an object: the hash check and the rename are steps of their own)
ReadChunk(r, ds) ==
  {Fault(r, Exc("URLError", "transport error"))}
  \cup (IF r.got < BodyChunks(r.ctx)
        THEN IF r.ctx = "asset"
             THEN {Ok([r EXCEPT !.pc = "dl_cb", !.got = r.got + 1, !.body = "good"]), Corrupt(r)}
             ELSE {Ok([r EXCEPT !.pc = "dl_cb", !.got = r.got + 1])}
        ELSE IF r.ctx = "asset" THEN {Ok([r EXCEPT !.pc = "dl_sha", !.body = ""])}
        ELSE (IF HasSha(r.ctx) THEN {Fault(r, Exc("ValueError", "SHA1 mismatch"))} ELSE {})
             \cup (IF InVersionDir(r.ctx) /\ version_dir(r.key) \notin ds
                   THEN {Ok(RaiseAt(r, "dltry", Exc("OSError", "no such directory")))}
                   ELSE {Ok(Return(r))}))

\* mutant: the exception of the image fetch reaches the runner
Exhausted_raises(r) ==
  [rec |-> [r EXCEPT !.pc = "except", !.exc = r.last, !.pausing = FALSE], fault |-> FALSE, failed |-> TRUE]

\* "raise last_err" after the last attempt, line 240
Exhausted(r) == [rec |-> RaiseAt(r, "caller", r.last), fault |-> FALSE, failed |-> r.ctx # "image"]

\* download_file, lines 188-240.  A step is a checkpoint (_maybe_abort) with
\* the code that follows it up to the thread's next access to shared state.
DownloadFile(t) ==
  LET r == th[t]  k == r.key  d == version_dir(k) IN
  /\ r.pc \in {"dl_enter", "dl_chk", "dl_cb", "dl_cb_upd", "dl_except", "dl_sha", "dl_mv", "dl_ren"}
  /\ UNCHANGED <<sc, workers, cancel_flags, pause_flags, nthreads, manifests, nreq, gh, wvars>>
  /\ CASE r.pc = "dl_enter" ->
            /\ _maybe_abort(t, Attempt(r, dirs \cup {d}), "caller")
            /\ dirs' = IF th'[t].pc \in {"dl_chk", "dl_except"} /\ InVersionDir(r.ctx)
                       THEN dirs \cup {d} ELSE dirs
       [] r.pc = "dl_chk" ->
            /\ _maybe_abort(t, ReadChunk(r, dirs), "dltry")
            /\ UNCHANGED dirs
       [] r.pc = "dl_cb" ->
            /\ Checkpoint(t, IF CallbackWrites(r.ctx) THEN "dl_cb_upd" ELSE "dl_chk", "dltry")
            /\ UNCHANGED dirs
       [] r.pc = "dl_cb_upd" ->
            /\ CallbackWrite(t)
            /\ Goto(t, "dl_chk")
            /\ UNCHANGED <<dirs, faults>>
       [] r.pc = "dl_except" ->
            /\ _maybe_abort(t, IF MoreAttempts(r)
                                THEN Attempt([r EXCEPT !.att = r.att + 1], dirs)
                                ELSE {Exhausted(r)}, "caller")
            /\ UNCHANGED dirs
       [] r.pc = "dl_sha" ->
            \* lines 222-228: _sha1_file(tmp_path) and the comparison
            /\ th' = [th EXCEPT ![t] =
                 LET c == files.part[r.shard[r.n]] IN
                 IF c = "good" THEN [r EXCEPT !.pc = "dl_mv"]
                 ELSE IF c = "none" THEN RaiseAt(r, "dltry", Exc("OSError", "no such file"))
                 ELSE RaiseAt(r, "dltry", Exc("ValueError", "SHA1 mismatch"))]
            /\ UNCHANGED <<dirs, progress, faults>>
       [] r.pc = "dl_mv" ->
            \* lines 230-231: os.path.exists(dest_path), os.remove(dest_path)
            /\ Goto(t, "dl_ren")
            /\ UNCHANGED <<dirs, progress, faults>>
       [] r.pc = "dl_ren" ->
            \* lines 232-234: os.rename(tmp_path, dest_path), return
            /\ th' = [th EXCEPT ![t] =
                 IF files.part[r.shard[r.n]] = "none"
                 THEN RaiseAt(r, "dltry", Exc("OSError", "no such file"))
                 ELSE Return(r)]
            /\ UNCHANGED <<dirs, progress, faults>>
  /\ LET done == r.pc = "dl_chk" /\ th'[t].pc = r.ret IN
     /\ cache' = IF done /\ r.ctx = "lib" THEN cache \cup {LibPath(r.vj.libs[r.i])}
                 ELSE IF done /\ r.ctx = "nat" THEN cache \cup {NatPath(r.vj.libs[r.i])}
                 ELSE cache
  /\ files' = IF r.ctx = "lib"
              THEN IF r.pc = "dl_chk" /\ th'[t].pc = r.ret
                   THEN [files EXCEPT !.stale = @ \ {LibPath(r.vj.libs[r.i])}] ELSE files
              ELSE IF r.ctx # "asset" THEN files
              ELSE LET h == r.shard[r.n]  r2 == th'[t] IN
                   CASE r.pc \in {"dl_enter", "dl_except"} ->
                          IF r2.pc = "dl_chk" THEN Open(files, t, h) ELSE files
                     [] r.pc = "dl_chk" ->
                          IF r2.pc = "dl_cb" THEN WriteChunk(files, t, h, r2.body)
                          ELSE IF r2.pc = "dl_chk" THEN files
                          ELSE Close(files, t)
                     [] r.pc = "dl_cb" ->
                          IF r2.pc \in {"dl_chk", "dl_cb"} THEN files ELSE Close(files, t)
                     [] r.pc = "dl_sha" ->
                          IF files.part[h] \in {"empty", "bad"} THEN Unlink(files, h, "part") ELSE files
                     [] r.pc = "dl_mv" ->
                          IF files.obj[h] # "none" THEN Unlink(files, h, "obj") ELSE files
                     [] r.pc = "dl_ren" ->
                          IF files.part[h] = "none" THEN files ELSE Rename(files, h)
                     [] OTHER -> files
  /\ objects' = IF r.ctx = "asset" THEN {h \in Hashes : files'.obj[h] # "none"} ELSE objects

\* mutant: a cached file is reused whatever its hash
CacheHit_exists(path) == path \in cache \cup files.stale

\* lines 655-659: the cache has the file and its hash is the declared one
CacheHit(path) == path \in cache

\* lines 580-710: libraries
LibrariesStage(t) ==
  LET r == th[t]  k == r.key  libs == r.vj.libs  total == Len(libs) IN
  /\ r.pc \in {"libs_begin", "lib_chk", "lib_entry", "lib_post", "lib_copy_chk", "lib_copy_rw",
               "lib_done", "libs100", "chk3"}
  /\ UNCHANGED <<Frame, cache, manifests>>
  /\ CASE r.pc = "libs_begin" ->
            /\ IF total = 0
               THEN /\ Write(t, update_progress("libraries", 1, 1, "No libraries to download"))
                    /\ Goto(t, "chk3")
               ELSE /\ th' = [th EXCEPT ![t].pc = "lib_chk", ![t].i = 1]
                    /\ UNCHANGED progress
            /\ UNCHANGED dirs
       [] r.pc = "lib_chk" ->
            /\ Checkpoint(t, "lib_entry", "top")
            /\ UNCHANGED dirs
       [] r.pc = "lib_entry" ->
            /\ IF ~libs[r.i].art
               THEN Goto(t, "lib_done") /\ UNCHANGED progress
               ELSE IF _should_skip_library_for_version(libs[r.i], libs)
               THEN /\ Write(t, update_progress("libraries", r.i, Max(1, total), "Libraries"))
                    /\ th' = [th EXCEPT ![t] = IF r.i < total
                                               THEN [r EXCEPT !.pc = "lib_chk", !.i = r.i + 1]
                                               ELSE [r EXCEPT !.pc = "libs100"]]
               ELSE /\ th' = [th EXCEPT ![t] = IF CacheHit(LibPath(libs[r.i]))
                                               THEN [r EXCEPT !.pc = "lib_post"]
                                               ELSE Call(r, "lib", "lib_post")]
                    /\ UNCHANGED progress
            /\ UNCHANGED dirs
       [] r.pc = "lib_post" ->
            /\ dirs' = dirs \cup {version_dir(k)}
            /\ th' = [th EXCEPT ![t].pc = "lib_copy_chk", ![t].pos = 0]
            /\ UNCHANGED progress
       [] r.pc = "lib_copy_chk" ->
            /\ Checkpoint(t, "lib_copy_rw", "top")
            /\ UNCHANGED dirs
       [] r.pc = "lib_copy_rw" ->
            /\ th' = [th EXCEPT ![t] = IF r.pos < BodyChunks("lib")
                                       THEN [r EXCEPT !.pc = "lib_copy_chk", !.pos = r.pos + 1]
                                       ELSE [r EXCEPT !.pc = "lib_done", !.pos = 0,
                                                      !.copied = Append(r.copied, LibPath(libs[r.i]))]]
            /\ UNCHANGED <<progress, dirs>>
       [] r.pc = "lib_done" ->
            /\ Write(t, update_progress("libraries", r.i, Max(1, total), "Libraries"))
            /\ th' = [th EXCEPT ![t] = IF r.i < total
                                       THEN [r EXCEPT !.pc = "lib_chk", !.i = r.i + 1]
                                       ELSE [r EXCEPT !.pc = "libs100"]]
            /\ UNCHANGED dirs
       [] r.pc = "libs100" ->
            /\ Write(t, update_progress("libraries", 1, 1, "Libraries downloaded"))
            /\ Goto(t, "chk3")
            /\ UNCHANGED dirs
       [] r.pc = "chk3" ->
            /\ Checkpoint(t, "nats_begin", "top")
            /\ UNCHANGED dirs

\* lines 712-819: natives
NativesStage(t) ==
  LET r == th[t]  k == r.key  libs == r.vj.libs  total == NatCount(libs) IN
  /\ r.pc \in {"nats_begin", "nat_chk", "nat_entry", "nat_post", "nat_x_chk", "nat_x_do",
               "nat_done", "nats100", "chk4"}
  /\ UNCHANGED <<Frame, cache, manifests>>
  /\ CASE r.pc = "nats_begin" ->
            /\ IF total = 0
               THEN /\ Write(t, update_progress("natives", 1, 1, "No natives to download"))
                    /\ Goto(t, "chk4")
               ELSE /\ th' = [th EXCEPT ![t].pc = "nat_chk", ![t].i = NextNat(libs, 1)]
                    /\ UNCHANGED progress
            /\ UNCHANGED dirs
       [] r.pc = "nat_chk" ->
            /\ Checkpoint(t, "nat_entry", "top")
            /\ UNCHANGED dirs
       [] r.pc = "nat_entry" ->
            /\ th' = [th EXCEPT ![t] = IF NatPath(libs[r.i]) \in cache
                                       THEN [r EXCEPT !.pc = "nat_post"]
                                       ELSE Call(r, "nat", "nat_post")]
            /\ UNCHANGED <<progress, dirs>>
       [] r.pc = "nat_post" ->
            /\ dirs' = dirs \cup {version_dir(k)}
            /\ \/ th' = [th EXCEPT ![t].pc = "nat_x_chk", ![t].pos = 0]
               \/ th' = [th EXCEPT ![t] = RaiseAt(r, "extract", NoExc)]
            /\ UNCHANGED progress
       [] r.pc = "nat_x_chk" ->
            /\ IF r.pos < MaxMembers
               THEN Checkpoint(t, "nat_x_do", "extract")
               ELSE th' = [th EXCEPT ![t].pc = "nat_done", ![t].pos = 0] /\ UNCHANGED progress
            /\ UNCHANGED dirs
       [] r.pc = "nat_x_do" ->
            /\ \/ th' = [th EXCEPT ![t].pc = "nat_x_chk", ![t].pos = r.pos + 1]
               \/ th' = [th EXCEPT ![t] = RaiseAt(r, "extract", NoExc)]
            /\ UNCHANGED <<progress, dirs>>
       [] r.pc = "nat_done" ->
            /\ Write(t, update_progress("natives", NatBefore(libs, r.i) + 1, Max(1, total), "Natives"))
            /\ th' = [th EXCEPT ![t] = IF NextNat(libs, r.i + 1) # 0
                                       THEN [r EXCEPT !.pc = "nat_chk", !.i = NextNat(libs, r.i + 1)]
                                       ELSE [r EXCEPT !.pc = "nats100"]]
            /\ UNCHANGED dirs
       [] r.pc = "nats100" ->
            /\ Write(t, update_progress("natives", 1, 1, "Natives downloaded"))
            /\ Goto(t, "chk4")
            /\ UNCHANGED dirs
       [] r.pc = "chk4" ->
            /\ Checkpoint(t, "assets_begin", "top")
            /\ UNCHANGED dirs

\* mutant: no de-duplication
unique_libs_all(names, seen) == names

\* seen_libs / unique_libs, lines 1044-1049
RECURSIVE unique_libs(_, _)
unique_libs(names, seen) ==
  IF names = <<>> THEN <<>>
  ELSE IF Head(names) \in seen THEN unique_libs(Tail(names), seen)
  ELSE <<Head(names)>> \o unique_libs(Tail(names), seen \cup {Head(names)})

\* _wiki_image_url(version_id, vtype) is None
NoImageUrl(vtype) == vtype \notin {"release", "snapshot", "old_beta", "old_alpha"}

\* lines 1001-1108: finalize
FinalizeStage(t) ==
  LET r == th[t]  k == r.key  d == version_dir(k) IN
  /\ r.pc \in {"chk5", "fin_begin", "fin50", "manifest", "fin100", "installed"}
  /\ UNCHANGED <<Frame, dirs, cache>>
  /\ CASE r.pc = "chk5" ->
            /\ Checkpoint(t, "fin_begin", "top")
            /\ UNCHANGED manifests
       [] r.pc = "fin_begin" ->
            /\ IF NoImageUrl(r.vj.vtype)
               THEN Goto(t, "fin50") /\ UNCHANGED progress
               ELSE /\ Write(t, update_progress("finalize", 0, 1, "Downloading display image..."))
                    /\ th' = [th EXCEPT ![t] = Call(r, "image", "fin50")]
            /\ UNCHANGED manifests
       [] r.pc = "fin50" ->
            /\ Write(t, update_progress("finalize", 1, 2, "Writing metadata..."))
            /\ Goto(t, "manifest")
            /\ UNCHANGED manifests
       [] r.pc = "manifest" ->
            /\ IF d \in dirs
               THEN /\ manifests' = [manifests EXCEPT ![d] = <<<<"client.jar">>>> \o unique_libs(r.copied, {})]
                    /\ Goto(t, "fin100")
               ELSE /\ th' = [th EXCEPT ![t] = RaiseAt(r, "top", Exc("OSError", "no such directory"))]
                    /\ UNCHANGED manifests
            /\ UNCHANGED progress
       [] r.pc = "fin100" ->
            /\ Write(t, update_progress("finalize", 1, 1, "Installation complete"))
            /\ Goto(t, "installed")
            /\ UNCHANGED manifests
       [] r.pc = "installed" ->
            /\ Write(t, installed_record)
            /\ th' = [th EXCEPT ![t] = Unwound(r, NoExc, "installed")]
            /\ UNCHANGED manifests

\* install_version.runner, lines 1141-1184: classification and clean-up
Runner(t) ==
  LET r == th[t]  k == r.key  d == version_dir(k) IN
  /\ r.pc \in {"except", "finally", "pop_workers", "pop_cancel", "pop_pause"}
  /\ UNCHANGED <<sc, nthreads, cache, objects, files, nreq, faults, wvars>>
  /\ CASE r.pc = "except" ->
            /\ IF r.exc.type = "RuntimeError"
               THEN IF r.exc.msg = "cancelled"
                    THEN /\ Write(t, cancelled_record)
                         /\ th' = [th EXCEPT ![t] = Unwound(r, r.exc, "cancelled")]
                    ELSE /\ Write(t, error_record(r.exc.msg))
                         /\ th' = [th EXCEPT ![t] = Unwound(r, r.exc, "error")]
               ELSE /\ th' = [th EXCEPT ![t] = Unwound(r, r.exc, "unclassified")]
                    /\ UNCHANGED progress
            /\ UNCHANGED <<workers, cancel_flags, pause_flags, dirs, manifests, gh>>
       [] r.pc = "finally" ->
            /\ IF r.cancelled /\ d \in dirs
               THEN dirs' = dirs \ {d} /\ manifests' = [manifests EXCEPT ![d] = <<>>]
               ELSE UNCHANGED <<dirs, manifests>>
            /\ Goto(t, "pop_workers")
            /\ UNCHANGED <<workers, cancel_flags, pause_flags, progress, gh>>
       [] r.pc = "pop_workers" ->
            /\ workers' = [workers EXCEPT ![k] = 0]
            /\ Goto(t, "pop_cancel")
            /\ UNCHANGED <<cancel_flags, pause_flags, progress, dirs, manifests, gh>>
       [] r.pc = "pop_cancel" ->
            /\ cancel_flags' = [cancel_flags EXCEPT ![k] = "absent"]
            /\ Goto(t, "pop_pause")
            /\ UNCHANGED <<workers, pause_flags, progress, dirs, manifests, gh>>
       [] r.pc = "pop_pause" ->
            /\ pause_flags' = [pause_flags EXCEPT ![k] = "absent"]
            /\ th' = [th EXCEPT ![t] = Ended(r)]
            /\ gh' = [gh EXCEPT ![t] = FALSE]
            /\ UNCHANGED <<workers, cancel_flags, progress, dirs, manifests>>

\* mutant: every chunk holds every key
chunk_all(assets, j, n) == assets

\* chunks[j] after "chunks[i % asset_threads].append(k)", lines 967-969
chunk(assets, j, n) ==
  LET len == Cardinality({i \in 0..(Len(assets) - 1) : i % n = j})
  IN [m \in 1..len |-> assets[j + (m - 1) * n + 1]]

\* lines 966-969: the chunks of a key list, one per thread of the target concurrency
Sharding(cpus, nkeys) ==
  LET n == _choose_asset_threads(cpus) IN
  [cpus |-> cpus, keys |-> nkeys,
   chunks |-> [j \in 0..(n - 1) |-> chunk([i \in 1..nkeys |-> i], j, n)]]

\* mutant: only the first thread of the list is joined
Joined_first(t) == ~IsAlive(WorkerId(t, 1))

\* "for t in threads: t.join()", lines 980-981: every worker has ended
Joined(t) == \A u \in WorkerIds(t) : ~IsAlive(u)

\* lines 821-999: assets (index, then the Asset Pool)
AssetsStage(t) ==
  LET r == th[t]  k == r.key  assets == r.vj.assets
      n == _choose_asset_threads(CpuCount) IN
  /\ r.pc \in {"assets_begin", "idx_read", "join"}
  /\ UNCHANGED <<Frame, dirs, cache, manifests>>
  /\ CASE r.pc = "assets_begin" ->
            IF r.vj.hasIndex
            THEN /\ Write(t, update_progress("assets", 0, 1, "Downloading asset index..."))
                 /\ th' = [th EXCEPT ![t] = Call(r, "index", "idx_read")]
            ELSE /\ Write(t, update_progress("assets", 1, 1, "No assets required"))
                 /\ Goto(t, "chk5")
       [] r.pc = "idx_read" ->
            \/ /\ th' = [th EXCEPT ![t] = RaiseAt(r, "top", Exc("RuntimeError", "failed to read asset index"))]
               /\ UNCHANGED progress
            \/ IF _is_modern_assets(k.id) /\ ~r.full
               THEN /\ Write(t, update_progress("assets", 1, 1, "Assets will be downloaded by the game at runtime"))
                    /\ Goto(t, "chk5")
               ELSE IF Len(assets) = 0
               THEN /\ Write(t, update_progress("assets", 1, 1, "No assets to download"))
                    /\ Goto(t, "chk5")
               ELSE /\ th' = [u \in AllThreads |->
                              IF u = t THEN [r EXCEPT !.pc = "join", !.done = 0, !.lock = 0]
                              ELSE IF \E w \in 1..Min(n, Len(assets)) : u = WorkerId(t, w)
                              THEN [Unused EXCEPT !.pc = "w_top", !.key = k, !.owner = t, !.n = 1,
                                                  !.shard = chunk(assets, u - WorkerId(t, 1), n)]
                              ELSE th[u]]
                    /\ UNCHANGED progress
       [] r.pc = "join" ->
            /\ Joined(t)
            /\ Write(t, update_progress("assets", 1, 1, "Assets downloaded"))
            /\ Goto(t, "chk5")

\* worker(asset_keys), lines 903-964
AssetWorker(t) ==
  LET r == th[t]  k == r.key  o == r.owner IN
  /\ r.pc \in {"w_top", "w_pause", "w_obj", "w_after", "w_lock", "w_count"}
  /\ UNCHANGED <<Frame, dirs, cache, manifests>>
  /\ CASE r.pc = "w_top" ->
            /\ th' = IF r.n > Len(r.shard) THEN [th EXCEPT ![t] = Ended(r)]
                     ELSE IF cancel_flags[k] = "True"
                     THEN [th EXCEPT ![t] = Ended(r), ![o].aborted = TRUE]
                     ELSE [th EXCEPT ![t].pc = "w_pause"]
            /\ UNCHANGED progress
       [] r.pc = "w_pause" -> _check_pause(t, {Ok([r EXCEPT !.pc = "w_obj"])})
       [] r.pc = "w_obj" ->
            /\ th' = [th EXCEPT ![t] =
                 IF r.shard[r.n] = "" THEN [r EXCEPT !.pc = "w_top", !.n = r.n + 1]
                 ELSE IF r.shard[r.n] \in objects THEN [r EXCEPT !.pc = "w_lock"]
                 ELSE Call(r, "asset", "w_after")]
            /\ UNCHANGED progress
       [] r.pc = "w_after" ->
            /\ th' = IF cancel_flags[k] = "True"
                     THEN [th EXCEPT ![t] = Ended(r), ![o].aborted = TRUE]
                     ELSE [th EXCEPT ![t].pc = "w_lock"]
            /\ UNCHANGED progress
       [] r.pc = "w_lock" ->
            /\ th[o].lock = 0
            /\ th' = [th EXCEPT ![t].pc = "w_count", ![o].lock = t]
            /\ UNCHANGED progress
       [] r.pc = "w_count" ->
            /\ Write(t, update_progress("assets", th[o].done + 1, Max(1, Len(th[o].vj.assets)), "Assets"))
            /\ th' = [th EXCEPT ![t] = [r EXCEPT !.pc = "w_top", !.n = r.n + 1],
                                ![o].done = th[o].done + 1, ![o].lock = 0]

\* the exception of ensure_dirs(), which progress_path calls before the
\* try block of write_progress (lines 48-54, 60-63, 67-68)
ProgressError == Exc("OSError", "progress directory")

\* the steps of _install_version that are one call of _update_progress
ProgressWrites == {"vj0", "vj100", "client0", "client100", "lib_done", "libs100", "nat_done",
                   "nats100", "join", "fin50", "fin100"}

\* a call of _update_progress in _install_version whose progress_path raises:
\* nothing is written and the exception leaves _install_version
WriteRaises(t) ==
  LET r == th[t] IN
  /\ r.pc \in ProgressWrites
  /\ r.pc = "join" => Joined(t)
  /\ faults < sc.faults
  /\ faults' = faults + 1
  /\ th' = [th EXCEPT ![t] = RaiseAt(r, "top", ProgressError)]
  /\ UNCHANGED <<sc, workers, cancel_flags, pause_flags, progress, dirs, cache, objects, files,
                 manifests, nthreads, nreq, gh, wvars>>

\* ---------------------------------------------------------- specifications
Stages == {StageOrder[i] : i \in 1..Len(StageOrder)}

\* the inputs of a run: the keys requests are made for, the documents the
\* catalog serves, the full_assets arguments, and how many jobs, control
\* requests and transfer faults the environment produces; stale: the files
\* with a wrong hash that earlier runs left in the library cache
Scenario(ks, docs, full, jobs, reqs, flts) ==
  [keys |-> ks, docs |-> docs, full |-> full, jobs |-> jobs, reqs |-> reqs, faults |-> flts,
   stale |-> {}]

\* restarts of one key
Restarts == Scenario({KeyA}, {VJNoClient, VJMin}, {FALSE}, MaxThreads, MaxRequests, 0)
\* one job through client, libraries, natives and finalize, with faults
Stages1 == Scenario({KeyA}, {VJImage, VJLibs}, {FALSE}, 1, MaxRequests, MaxFaults)
\* one job through the Asset Pool, with requests
Pool1 == Scenario({KeyA}, {VJAssets}, {FALSE, TRUE}, 1, MaxRequests, 0)
\* one job through the Asset Pool, with faults
Pool2 == Scenario({KeyA}, {VJAssets}, {TRUE}, 1, 0, MaxFaults)
\* jobs of two keys whose categories differ in letter case
TwoKeys == Scenario({KeyA, KeyB}, {VJNoClient}, {FALSE}, MaxThreads, MaxRequests, 0)
\* one job of a version below 1.6 with an asset index
Legacy == Scenario({KeyL}, {VJAssets}, {FALSE, TRUE}, 1, 1, 0)

\* no call of download_file yet
NoFetch == [pc |-> "idle", attempt |-> 0, dest |-> "none", dest0 |-> "none", tmp |-> "none",
            downloaded |-> 0, cancel |-> FALSE, last_err |-> NoExc, expected_sha1 |-> FALSE,
            nfault |-> 0]

InitJobs(scenarios) ==
  /\ sc \in scenarios
  /\ workers = [k \in AllKeys |-> 0]
  /\ cancel_flags = [k \in AllKeys |-> "absent"]
  /\ pause_flags = [k \in AllKeys |-> "absent"]
  /\ progress = [k \in AllKeys |-> NoProgress]
  /\ dirs = {}
  /\ cache = {}
  /\ objects = {}
  /\ files = [NoFiles EXCEPT !.stale = sc.stale]
  /\ manifests = [d \in AllDirs |-> <<>>]
  /\ nthreads = 0
  /\ th = [t \in AllThreads |-> Unused]
  /\ nreq = 0
  /\ faults = 0
  /\ gh = [t \in Tids |-> FALSE]
  /\ wStage = "version_json" /\ wPct = 0 /\ wOut = 0
  /\ sh = Sharding(1, 0)
  /\ fetch = NoFetch

\* one job whose Asset Pool workers fetch the same object
Pool3 == Scenario({KeyA}, {VJSame}, {TRUE}, 1, 0, 1)

\* one job through library lists with repeated and superseded entries
Libs == [Scenario({KeyA}, {VJDup, VJVers}, {FALSE}, 1, 1, 0)
          EXCEPT !.stale = {LibPath(Lib("guava", <<>>, TRUE, 0))}]

Init == InitJobs({Restarts, Stages1, Pool1, Pool2, Pool3, TwoKeys, Legacy, Libs})

\* one evaluation of _compute_overall(stage, p); wOut is the value times 100
Weigh ==
  /\ \E s \in Stages, p \in 0..100 :
        /\ wStage' = s
        /\ wPct' = p
        /\ wOut' = compute_overall(s, p, 100)
  /\ UNCHANGED <<jvars, sh, fetch>>

\* one sharding of the keys 1..nkeys on a machine with cpus processors
Shard ==
  /\ \E cpus \in 1..MaxCpus, nkeys \in 0..MaxKeys : sh' = Sharding(cpus, nkeys)
  /\ UNCHANGED <<jvars, wStage, wPct, wOut, fetch>>

\* mutant: the integrity mismatch removes the destination
Mismatch_removes_dest(f) ==
  [f EXCEPT !.pc = "except", !.dest = "none", !.last_err = Exc("ValueError", "SHA1 mismatch")]

\* lines 224-228: os.remove(tmp_path), raise ValueError, caught at line 235
Mismatch(f) ==
  [f EXCEPT !.pc = "except", !.tmp = "none", !.last_err = Exc("ValueError", "SHA1 mismatch")]

\* an exception raised inside the try block, caught at lines 235-236
Caught(f, e) == [f EXCEPT !.pc = "except", !.last_err = e]

\* One step of download_file(url, dest_path, expected_sha1, version_key) called
\* by a single thread, lines 176-240.  dest and tmp are the files at dest_path
\* and at dest_path + ".part": "none" (no file), for dest "old" (the content
\* it had before the call) or "new", for tmp "empty", "good" (the body with
\* the expected hash) or "bad".
FetchStep ==
  LET f == fetch IN
  /\ UNCHANGED <<jvars, wStage, wPct, wOut, sh>>
  /\ CASE f.pc = "idle" ->
            \E d \in {"none", "old"}, sha \in BOOLEAN :
              fetch' = [f EXCEPT !.pc = "enter", !.dest = d, !.dest0 = d, !.expected_sha1 = sha]
       [] f.pc = "enter" ->
            \* line 188
            fetch' = IF f.cancel THEN [f EXCEPT !.pc = "raised", !.last_err = Cancelled]
                     ELSE [f EXCEPT !.pc = "open", !.attempt = 1]
       [] f.pc = "open" ->
            \* lines 198-211: urlopen, open(tmp_path, "wb")
            \/ /\ f.nfault < MaxFaults
               /\ fetch' = [Caught(f, Exc("URLError", "transport error")) EXCEPT !.nfault = f.nfault + 1]
            \/ fetch' = [f EXCEPT !.pc = "chunk", !.tmp = "empty", !.downloaded = 0]
       [] f.pc = "chunk" ->
            \* lines 213-220: _maybe_abort, resp.read, f.write
            IF f.cancel THEN fetch' = Caught(f, Cancelled)
            ELSE \/ /\ f.nfault < MaxFaults
                    /\ fetch' = [Caught(f, Exc("URLError", "transport error")) EXCEPT !.nfault = f.nfault + 1]
                 \/ IF f.downloaded < MaxChunks
                    THEN \E q \in {"good", "bad"} :
                           fetch' = [f EXCEPT !.downloaded = f.downloaded + 1,
                                              !.tmp = IF f.tmp = "bad" THEN "bad" ELSE q]
                    ELSE fetch' = [f EXCEPT !.pc = "sha"]
       [] f.pc = "sha" ->
            \* lines 222-228
            fetch' = IF f.expected_sha1 /\ f.tmp # "good" THEN Mismatch(f) ELSE [f EXCEPT !.pc = "mv"]
       [] f.pc = "mv" ->
            \* lines 230-231
            fetch' = [f EXCEPT !.pc = "ren", !.dest = "none"]
       [] f.pc = "ren" ->
            \* lines 232-234
            fetch' = [f EXCEPT !.pc = "returned", !.dest = "new", !.tmp = "none"]
       [] f.pc = "except" ->
            \* lines 236-240: _maybe_abort, the next attempt or "raise last_err"
            fetch' = IF f.cancel THEN [f EXCEPT !.pc = "raised", !.last_err = Cancelled]
                     ELSE IF f.attempt < Retries THEN [f EXCEPT !.pc = "open", !.attempt = f.attempt + 1]
                     ELSE [f EXCEPT !.pc = "raised"]
       [] OTHER -> FALSE

\* cancel_install on the key of the call, while the call runs
FetchCancel ==
  /\ fetch.pc \notin {"idle", "returned", "raised"}
  /\ ~fetch.cancel
  /\ fetch' = [fetch EXCEPT !.cancel = TRUE]
  /\ UNCHANGED <<jvars, wStage, wPct, wOut, sh>>

Request ==
  \E k \in sc.keys :
    \/ \E full \in sc.full : install_version(k, full)
    \/ cancel_install(k)
    \/ pause_install(k)
    \/ resume_install(k)

Step(t) ==
  \/ StartStage(t)
  \/ ClientStage(t)
  \/ DownloadFile(t)
  \/ LibrariesStage(t)
  \/ NativesStage(t)
  \/ AssetsStage(t)
  \/ AssetWorker(t)
  \/ FinalizeStage(t)
  \/ WriteRaises(t)
  \/ Runner(t)

Next == Request \/ \E t \in AllThreads : Step(t)

Spec == Init /\ [][Next]_vars

\* the Stage Weigher alone
SpecWeigh == InitJobs({Restarts}) /\ [][Weigh]_vars

\* the sharding alone
SpecShard == InitJobs({Restarts}) /\ [][Shard]_vars

\* one call of download_file alone
SpecFetch == InitJobs({Restarts}) /\ [][FetchStep \/ FetchCancel]_vars

\* The scheduler runs every thread that can take a step.
SpecFair == InitJobs({Stages1, Pool1}) /\ [][Next]_vars /\ \A t \in AllThreads : WF_vars(Step(t))

\* ------------------------------------------------------------------ claims
Unwinding == {"finally", "pop_workers", "pop_cancel", "pop_pause"}

\* C1: for every key at most one pipeline thread is live at any time.
C1_OneLiveThread == \A k \in AllKeys : Cardinality(LiveThreads(k)) <= 1

\* C2: a job on which cancel was called while it was installing ends with
\* the record of its key at status cancelled and its install directory removed.
C2_CancelEndsCancelled ==
  \A t \in Tids :
    (gh[t] /\ th[t].pc = "pop_workers") =>
      /\ progress[th[t].key].status = "cancelled"
      /\ version_dir(th[t].key) \notin dirs

\* C3: a job that ends because of a failure other than cancellation leaves a
\* record with status error and the error's message.
C3_FailureEndsError ==
  \A t \in Tids :
    (th[t].pc = "finally" /\ th[t].exc # NoExc /\ th[t].exc # Cancelled) =>
      /\ progress[th[t].key].status = "error"
      /\ progress[th[t].key].message = th[t].exc.msg

\* C4: a job whose pipeline ran through all stages has written a record with
\* status installed and 100/100; while its thread is still registered that is
\* the record of the key and no pool worker of the job is alive, and the
\* remaining steps of the thread write no record.
C4_InstalledIsLast ==
  /\ [](\A t \in Tids :
         (th[t].pc \in {"finally", "pop_workers"} /\ th[t].result = "installed") =>
           /\ \A u \in WorkerIds(t) : ~IsAlive(u)
           /\ progress[th[t].key].status = "installed"
           /\ progress[th[t].key].stage_percent = 100
           /\ progress[th[t].key].overall_percent = 100)
  /\ [][\A t \in Tids :
         (th[t].pc \in Unwinding /\ th[t].result = "installed" /\ th'[t] # th[t]) =>
           progress' = progress]_vars

C4_Witness ==
  \E t \in Tids : /\ th[t].pc = "pop_pause" /\ th[t].result = "installed"
                   /\ progress[th[t].key].status = "installed"
                   /\ th[t].key \in {KeyA}
                   /\ nreq > 0

\* C5: when the thread of a job ends, the registry holds no worker entry, no
\* cancel flag and no pause flag for its key.
C5_EndLeavesNothing ==
  [][\A t \in Tids :
       (th[t].pc = "pop_pause" /\ th'[t].pc = "dead") =>
         /\ workers'[th[t].key] = 0
         /\ cancel_flags'[th[t].key] = "absent"
         /\ pause_flags'[th[t].key] = "absent"]_vars

\* a job past its start-up clearing, with a record, on which pause is in effect
PausedJob(k) ==
  /\ is_installing(k)
  /\ th[workers[k]].pc # "clear"
  /\ pause_flags[k] = "True"
  /\ progress[k].status # "absent"

\* C6: once pause is in effect on a running job that has a record, get_status
\* keeps returning paused across every step that is not a resume, a cancel or
\* the end of the job.
C6_PausedUntilResumed ==
  [][\A k \in AllKeys :
       (/\ PausedJob(k)
        /\ ~resume_install(k)
        /\ ~cancel_install(k)
        /\ workers'[k] = workers[k]
        /\ IsAlive(workers[k])') => get_install_status(k)'.status = "paused"]_vars

\* the stage a job thread is in, in pipeline order (7: unwinding or ended)
StageRank(r) ==
  CASE r.pc \in {"clear", "vj0", "meta", "vj100", "mkdir", "chk1"} -> 1
    [] r.pc \in {"client_info", "client0", "client100", "chk2"} -> 2
    [] r.pc \in {"libs_begin", "lib_chk", "lib_entry", "lib_post", "lib_copy_chk", "lib_copy_rw",
                 "lib_done", "libs100", "chk3"} -> 3
    [] r.pc \in {"nats_begin", "nat_chk", "nat_entry", "nat_post", "nat_x_chk", "nat_x_do",
                 "nat_done", "nats100", "chk4"} -> 4
    [] r.pc \in {"assets_begin", "idx_read", "join"} -> 5
    [] r.pc \in {"chk5", "fin_begin", "fin50", "manifest", "fin100", "installed"} -> 6
    [] r.pc \in {"dl_enter", "dl_chk", "dl_cb", "dl_cb_upd", "dl_except", "dl_sha", "dl_mv",
                 "dl_ren"} ->
         (CASE r.ctx = "client" -> 2 [] r.ctx = "lib" -> 3 [] r.ctx = "nat" -> 4
            [] r.ctx = "index" -> 5 [] r.ctx = "image" -> 6 [] OTHER -> 5)
    [] OTHER -> 7

\* a thread of job t is in the pause wait
InPauseWait(t) == th[t].pausing \/ \E u \in WorkerIds(t) : th[u].pausing
\* job t was paused and resume has been called since
Resumed(t) == IsAlive(t) /\ InPauseWait(t) /\ pause_flags[th[t].key] = "False"
\* the job has reached a terminal state
Terminal(t) ==
  th[t].pc = "finally" /\ progress[th[t].key].status \in {"installed", "cancelled", "error"}
\* the job was paused or cancelled again, or ended on a failed transfer
Disturbed(t) ==
  \/ pause_flags[th[t].key] = "True"
  \/ cancel_flags[th[t].key] = "True"
  \/ th[t].pc = "finally" /\ th[t].result = "unclassified"

\* a step never takes a job thread to an earlier stage or an earlier entry of
\* the stage's list, nor a pool worker to an earlier key; a library is copied once
NoRework ==
  \A t \in AllThreads :
    (IsAlive(t) /\ th'[t] # th[t]) =>
      /\ th[t].owner = 0 => StageRank(th'[t]) >= StageRank(th[t])
      /\ (StageRank(th'[t]) = StageRank(th[t]) /\ StageRank(th[t]) \in {3, 4}) => th'[t].i >= th[t].i
      /\ (th[t].owner # 0 /\ IsAlive(t)') => th'[t].n >= th[t].n
      /\ \A a, b \in 1..Len(th'[t].copied) : th'[t].copied[a] = th'[t].copied[b] => a = b

\* C7: a job that was in the pause wait when resume was called leaves the wait
\* and reaches a terminal state, with a terminal record, unless it is paused or
\* cancelled again or a transfer fails; and no step of a job goes back to a
\* stage or an entry already done.
C7_ResumeContinues ==
  /\ [][NoRework]_vars
  /\ \A t \in Tids : Resumed(t) ~> (Terminal(t) \/ Disturbed(t))

C7_Witness ==
  \E t \in Tids : /\ Resumed(t)
                   /\ progress[th[t].key].status = "paused"
                   /\ StageRank(th[t]) > 2

\* C8 (as amended): cancel sets the cancel flag of its key and removes the
\* pause flag of that key; pause and resume set the pause flag of their key and
\* leave every cancel flag alone; none of the three changes the worker
\* registry, a flag of another key or the Progress Store.
C8_FlagsOnly ==
  [][\A k \in AllKeys :
       /\ cancel_install(k) =>
            /\ cancel_flags' = [cancel_flags EXCEPT ![k] = "True"]
            /\ pause_flags' = [pause_flags EXCEPT ![k] = "absent"]
            /\ UNCHANGED <<workers, progress>>
       /\ pause_install(k) =>
            /\ pause_flags' = [pause_flags EXCEPT ![k] = "True"]
            /\ UNCHANGED <<cancel_flags, workers, progress>>
       /\ resume_install(k) =>
            /\ pause_flags' = [pause_flags EXCEPT ![k] = "False"]
            /\ UNCHANGED <<cancel_flags, workers, progress>>]_vars

\* cancel has been called on a job in the pause wait, while the other key has a live job
C8_Witness ==
  \E k \in AllKeys, j \in AllKeys :
    /\ k # j
    /\ is_installing(k) /\ is_installing(j)
    /\ th[workers[k]].pausing
    /\ cancel_flags[k] = "True" /\ pause_flags[k] = "absent"
    /\ progress[k].status = "paused" /\ progress[j].status = "downloading"

\* C8 (as stated): each of cancel, pause and resume changes only its own flag;
\* cancel leaves the pause flag unchanged.
C8_OwnFlagOnly ==
  [][\A k \in AllKeys :
       /\ cancel_install(k) => UNCHANGED <<pause_flags, workers, progress>>
       /\ pause_install(k) => UNCHANGED <<cancel_flags, workers, progress>>
       /\ resume_install(k) => UNCHANGED <<cancel_flags, workers, progress>>]_vars

\* the sum of the weights of the stages before s, and of all stages
RECURSIVE SumWeights(_)
SumWeights(S) ==
  IF S = {} THEN 0
  ELSE LET s == CHOOSE x \in S : TRUE IN STAGE_WEIGHTS[s] + SumWeights(S \ {s})
StagesBefore(s) == {StageOrder[i] : i \in {j \in 1..Len(StageOrder) : \A m \in 1..j : StageOrder[m] # s}}
StageIndex(s) == CHOOSE j \in 1..Len(StageOrder) : StageOrder[j] = s

\* C9: the weights sum to 100, and for stage s at p percent the weigher
\* returns (sum of the weights before s) + weight(s) * p / 100, a value in
\* [0, 100] that does not decrease from p to p + 1 nor from (s, 100) to
\* (next stage, 0).  wOut is the value times 100.
C9_Weigher ==
  /\ SumWeights(Stages) = 100
  /\ wOut = 100 * SumWeights(StagesBefore(wStage)) + STAGE_WEIGHTS[wStage] * wPct
  /\ 0 <= wOut /\ wOut <= 100 * 100
  /\ wPct < 100 => compute_overall(wStage, wPct + 1, 100) >= wOut
  /\ (wPct = 100 /\ StageIndex(wStage) < Len(StageOrder)) =>
        compute_overall(StageOrder[StageIndex(wStage) + 1], 0, 100) >= wOut

C9_Witness == wStage = "assets" /\ wPct = 50 /\ wOut = 7750

\* C10: from one record of a job to the next, pause records and the terminal
\* record included, overall_percent does not decrease, and stage_percent does
\* not decrease within a stage.
C10_PercentMonotone ==
  [][\A k \in AllKeys :
       (/\ progress'[k] # progress[k]
        /\ progress[k].status # "absent"
        /\ ~\E t \in Tids : th[t].pc = "vj0" /\ th[t].key = k /\ th'[t].pc # "vj0") =>
         /\ progress'[k].overall_percent >= progress[k].overall_percent
         /\ progress'[k].stage = progress[k].stage =>
               progress'[k].stage_percent >= progress[k].stage_percent]_vars

\* the cancel test of _maybe_abort would raise in thread record r
SeesCancel(r) == ~r.pausing /\ cancel_flags[r.key] = "True"

\* C12: a download_file call makes one urlopen call per attempt; it raises the
\* error of its last attempt only after exactly Retries attempts, goes to a
\* further attempt only while fewer than Retries were made, and a call that
\* succeeds on attempt k has made exactly k attempts, k <= Retries.
C12_ExactAttempts ==
  [][\A t \in AllThreads :
       LET r == th[t]  s == th'[t] IN
       /\ (r.pc = "dl_except" /\ s # r /\ s.pc \notin {"dl_except", "dl_chk"} /\ ~SeesCancel(r)) =>
            /\ r.tries = Retries
            /\ s.pc = "except" => s.exc = r.last
       /\ (r.pc = "dl_except" /\ s.pc \in {"dl_except", "dl_chk"} /\ s.att # r.att) =>
            /\ r.tries < Retries
            /\ s.tries = r.tries + 1 /\ s.att = s.tries
       /\ (r.pc = "dl_chk" /\ s.pc = r.ret) =>
            /\ r.tries = r.att
            /\ 1 <= r.tries /\ r.tries <= Retries]_vars

\* the client fetch has raised the transport error of its third attempt
C12_Witness ==
  \E t \in Tids : /\ th[t].pc = "except" /\ th[t].ctx = "client"
                   /\ th[t].tries = Retries /\ th[t].exc = Exc("URLError", "transport error")
                   /\ ~th[t].aborted

\* C13: a job one of whose fetches of the client, libraries, natives or assets
\* stage (a pool worker's included) raised after its last attempt does not go
\* on to write the manifest or the installed record, and unless a cancellation
\* was seen it ends classified as an error, with an error record.
C13_ExhaustedEndsError ==
  \A t \in Tids :
    th[t].failed =>
      /\ th[t].pc \notin {"manifest", "fin100", "installed"}
      /\ th[t].result # "installed"
      /\ (th[t].pc = "finally" /\ ~th[t].aborted) =>
            /\ th[t].result = "error"
            /\ progress[th[t].key].status = "error"

\* C13, for pool workers only: the job of a worker whose fetch raised after
\* its last attempt does not reach the manifest or the installed record.
C13_WorkerFailureStopsJob ==
  \A t \in Tids :
    (th[t].failed /\ th[t].exc = NoExc) =>
      /\ th[t].pc \notin {"manifest", "fin100", "installed"}
      /\ th[t].result # "installed"

\* C14: a job one of whose cancel tests (in the pipeline, in download_file, in
\* a copy or extraction loop, in a pool worker) found the cancel flag set is
\* classified as cancelled by the runner: its terminal record has status
\* cancelled, never error, and its install directory is removed.
C14_SeenCancelEndsCancelled ==
  /\ [](\A t \in Tids :
         (th[t].aborted /\ th[t].pc = "finally") =>
           /\ th[t].result = "cancelled"
           /\ progress[th[t].key].status = "cancelled")
  /\ [][\A t \in Tids :
         (th[t].aborted /\ th[t].pc = "finally" /\ th'[t].pc = "pop_workers") =>
           version_dir(th[t].key) \notin dirs']_vars

\* C14, last clause: a job one of whose cancel tests found the cancel flag set
\* never gets a terminal record with status error.
C14_CancelNeverError ==
  \A t \in Tids :
    (th[t].aborted /\ th[t].pc = "finally") =>
      /\ th[t].result # "error"
      /\ progress[th[t].key].status # "error"

\* C20: when a cancel test of download_file finds the flag set during the
\* image fetch of the finalize stage, the cancelled signal reaches the runner's
\* except clause; the job does not go on to the manifest and the installed record.
C20_ImageCancelPropagates ==
  [][\A t \in Tids :
       (/\ th[t].ctx = "image"
        /\ th[t].pc \in {"dl_enter", "dl_except"}
        /\ SeesCancel(th[t])
        /\ th'[t] # th[t]) =>
         /\ th'[t].pc = "except"
         /\ th'[t].exc = Cancelled]_vars

\* the version of key k is 1.6 or later
Modern(k) == k.id[1] > 1 \/ (k.id[1] = 1 /\ k.id[2] >= 6)

Started(t) == {WorkerId(t, w) : w \in 1..Min(_choose_asset_threads(CpuCount), Len(th[t].vj.assets))}

C19_ModernSkipsBodies ==
  /\ [](\A t \in Tids :
         (IsAlive(t) /\ th[t].pc \notin Unwinding /\ Modern(th[t].key) /\ ~th[t].full) =>
           /\ th[t].ctx # "asset"
           /\ \A u \in WorkerIds(t) : th[u].pc = "unused")
  /\ [][\A t \in Tids :
         LET r == th[t]  k == r.key IN
         (Modern(k) /\ ~r.full /\ r.vj.hasIndex) =>
           /\ (th'[t].pc = "chk5" /\ r.pc # "chk5") =>
                 /\ r.pc = "idx_read"
                 /\ progress'[k].status = "downloading"
                 /\ progress'[k].stage = "assets"
                 /\ progress'[k].stage_percent = 100
           /\ (th'[t].pc = "idx_read" /\ r.pc # "idx_read") =>
                 r.pc = "dl_chk" /\ r.ctx = "index"]_vars

\* such a job stands before finalize with the assets stage at 100 and no body stored
C19_Witness ==
  \E t \in Tids : /\ th[t].pc = "chk5" /\ Modern(th[t].key) /\ ~th[t].full
                   /\ th[t].vj.hasIndex /\ Len(th[t].vj.assets) > 0
                   /\ progress[th[t].key].stage = "assets"
                   /\ progress[th[t].key].stage_percent = 100
                   /\ objects = {}

\* the entries of libs that are installed: with an artifact, not skipped
Kept(libs) == {n \in 1..Len(libs) : libs[n].art /\ ~_should_skip_library_for_version(libs[n], libs)}
\* the first occurrence of each installed file name
FirstKept(libs) == {n \in Kept(libs) : \A m \in Kept(libs) : m < n => LibPath(libs[m]) # LibPath(libs[n])}

\* C16: the classpath a job writes into its manifest starts with client.jar;
\* after it, the file name of every installed library occurs exactly once, in
\* the order of first occurrence in the library list, and nothing else occurs:
\* no skipped library and no library without artifact.
C16_Classpath ==
  [][\A t \in Tids :
       LET r == th[t]  libs == r.vj.libs  cp == manifests'[version_dir(r.key)] IN
       (r.pc = "manifest" /\ th'[t].pc = "fin100") =>
         /\ Len(cp) = 1 + Cardinality(FirstKept(libs))
         /\ cp[1] = <<"client.jar">>
         /\ \A n \in FirstKept(libs) :
              Cardinality({j \in 2..Len(cp) : cp[j] = LibPath(libs[n])}) = 1
         /\ \A n, m \in FirstKept(libs) :
              n < m => \E a, b \in 2..Len(cp) :
                         a < b /\ cp[a] = LibPath(libs[n]) /\ cp[b] = LibPath(libs[m])
         /\ \A n \in 1..Len(libs) :
              n \notin Kept(libs) => \A j \in 1..Len(cp) : cp[j] # LibPath(libs[n])]_vars

\* an installed job whose list had a repeated entry and a skipped one
C16_Witness ==
  \E t \in Tids :
    /\ th[t].pc = "finally" /\ th[t].result = "installed"
    /\ manifests[version_dir(th[t].key)] =
         <<<<"client.jar">>, LibPath(Lib("guava", <<>>, TRUE, 0)), LibPath(Lib("lwjgl", <<3, 2, 2>>, TRUE, 0))>>
    /\ nreq > 0

\* version a is lower than version b, component by component
VerLess(a, b) ==
  \E i \in 1..Min(Len(a), Len(b)) : a[i] < b[i] /\ \A j \in 1..(i - 1) : a[j] = b[j]

\* C17: of two entries of one module whose file names carry different
\* versions, the lower one is not copied and is absent from the classpath the
\* job writes, and the highest one of the module occurs in it exactly once.
C17_LowerVersionSkipped ==
  [][\A t \in Tids :
       LET r == th[t]  libs == r.vj.libs  cp == manifests'[version_dir(r.key)] IN
       (r.pc = "manifest" /\ th'[t].pc = "fin100") =>
         \A n, m \in 1..Len(libs) :
           (/\ libs[n].art /\ libs[m].art
            /\ libs[n].head = libs[m].head
            /\ VerLess(libs[n].ver, libs[m].ver)) =>
              /\ \A j \in 1..Len(cp) : cp[j] # LibPath(libs[n])
              /\ \A j \in 1..Len(r.copied) : r.copied[j] # LibPath(libs[n])
              /\ (\A x \in 1..Len(libs) : ~VerLess(libs[m].ver, libs[x].ver) \/ libs[x].head # libs[m].head) =>
                    Cardinality({j \in 1..Len(cp) : cp[j] = LibPath(libs[m])}) = 1]_vars

\* C15: keys whose categories differ only in letter case are one job, so at
\* most one live job thread ever writes into one install directory.
C15_OneWriterPerDir ==
  \A d \in AllDirs :
    Cardinality({t \in Tids : IsAlive(t) /\ th[t].owner = 0 /\ version_dir(th[t].key) = d}) <= 1

\* C11: the object at a destination path never has a body whose hash differs
\* from the expected one: it is written only by an attempt whose hash matched.
C11_DestinationMatches == \A h \in Hashes : files.obj[h] \in {"none", "good"}

\* C21: an image fetch that failed on every attempt does not fail the install:
\* the exception is dropped and the job goes on to "Writing metadata"; a job
\* running alone then writes the manifest and ends with status installed.
C21_ImageFailureInstalls ==
  /\ [](\A t \in Tids :
          LET r == th[t]  d == version_dir(r.key) IN
          (sc.jobs = 1 /\ r.imgexc \notin {NoExc, Cancelled}) =>
            \/ r.pc \in {"fin50", "manifest"} /\ d \in dirs
            \/ r.pc \in {"fin100", "installed"} /\ manifests[d] # <<>>
            \/ /\ r.pc \in Unwinding
               /\ r.result = "installed"
               /\ manifests[d] # <<>>
               /\ progress[r.key] = installed_record)
  /\ [][\A t \in Tids :
          LET r == th[t] IN
          (/\ r.pc = "dl_except" /\ r.ctx = "image" /\ ~MoreAttempts(r)
           /\ th'[t].pc # "dl_except") =>
             /\ th'[t].pc = "fin50"
             /\ th'[t].imgexc # NoExc]_vars

\* a job that ended installed after its image fetch failed on every attempt
C21_Witness ==
  \E t \in Tids :
    /\ th[t].pc = "finally" /\ th[t].result = "installed"
    /\ th[t].imgexc = Exc("URLError", "transport error")
    /\ faults = Retries

\* the threads that have read the progress record of key k for a write they
\* have not made yet, or hold the pool's lock for a write
Writers(k) ==
  {t \in AllThreads : IsAlive(t) /\ th[t].key = k /\ (th[t].hasProg \/ th[t].pc = "w_count")}

\* C22: at no moment are two threads writing the progress record of one key:
\* at most one thread is between reading and writing it.
C22_OneWriter == \A k \in AllKeys : Cardinality(Writers(k)) <= 1

\* C23: during the resources stage of a job the stage percent of the records
\* observed for its key never decreases, pauses and resumes included.
C23_AssetsMonotone ==
  [][\A k \in AllKeys :
       (sc.jobs = 1 /\ progress[k].stage = "assets" /\ progress'[k].stage = "assets") =>
         progress'[k].stage_percent >= progress[k].stage_percent]_vars

\* C24: two fetches of one destination path do each other no harm: no attempt
\* fails because its ".part" file is gone, and while no transfer fault has
\* occurred an object that exists has the body with the expected hash.
C24_BenignDuplication ==
  /\ \A t \in AllThreads : th[t].last # Exc("OSError", "no such file")
  /\ faults = 0 => \A h \in Hashes : h \in objects => files.obj[h] = "good"

\* C25: once a destination path holds a file it holds one at every later
\* moment: the fetch that replaces it never leaves the path without a file.
C25_NeverMissing == [][\A h \in Hashes : h \in objects => h \in objects']_vars

\* C26: a thread in the pause wait of a key whose pause flag is set does no
\* stage work, and every record with status paused that is written carries the
\* stage and the percents of the record it replaces, the last one written.
C26_PausedCarriesLast ==
  [][/\ \A t \in AllThreads :
          (th[t].pausing /\ pause_flags[th[t].key] = "True" /\ th'[t].pc # "unused") =>
            /\ th'[t].pc = th[t].pc
            /\ th'[t].i = th[t].i /\ th'[t].n = th[t].n /\ th'[t].got = th[t].got
     /\ \A k \in AllKeys :
          (progress'[k] # progress[k] /\ progress'[k].status = "paused") =>
            /\ progress[k].status # "absent"
            /\ progress'[k].stage = progress[k].stage
            /\ progress'[k].stage_percent = progress[k].stage_percent
            /\ progress'[k].overall_percent = progress[k].overall_percent]_vars

\* the place of a stage in the order of the pipeline
RecordRank == [version_json |-> 1, client |-> 2, libraries |-> 3, natives |-> 4, assets |-> 5,
              finalize |-> 6]
TerminalStatus == {"installed", "cancelled", "error"}

\* C27: the records with status downloading of a job name the stages in the
\* order of the pipeline: the stage of a record is never earlier than the stage
\* of the record before it, and nothing is written after a terminal record.
\* (Stated for a job running alone: the records of the key are its records.)
C27_StagesInOrder ==
  [][\A k \in AllKeys :
       (sc.jobs = 1 /\ progress'[k] # progress[k]) =>
         /\ progress[k].status \notin TerminalStatus
         /\ (progress'[k].status = "downloading" /\ progress[k].status # "absent") =>
               RecordRank[progress'[k].stage] >= RecordRank[progress[k].stage]]_vars

\* a job that went through every stage, resources with bodies included
C27_Witness ==
  \E t \in Tids :
    /\ sc.jobs = 1 /\ th[t].pc = "finally" /\ th[t].result = "installed"
    /\ progress[th[t].key] = installed_record
    /\ objects # {} /\ nreq > 0

\* C28: no Asset Pool worker is alive unless its job thread waits in the join
\* of the resources stage: every worker has returned before the pipeline goes
\* on to finalize or unwinds, so no worker acts after the terminal record.
C28_WorkersJoined ==
  \A t \in Tids : \A u \in WorkerIds(t) : IsAlive(u) => th[t].pc = "join"

\* a job past the resources stage whose workers ran and have ended
C28_Witness ==
  \E t \in Tids :
    /\ th[t].pc = "chk5"
    /\ \A u \in WorkerIds(t) : th[u].pc = "dead"
    /\ th[t].done = Len(th[t].vj.assets)

\* the places <<j, m>> of key number i (from 0) in the chunks
Places(i) ==
  {p \in (DOMAIN sh.chunks) \X (1..MaxKeys) : p[2] <= Len(sh.chunks[p[1]]) /\ sh.chunks[p[1]][p[2]] = i + 1}

\* C29: for K keys and target concurrency N there are N chunks, key number i
\* is in chunk i mod N and nowhere else, once, and min(N, K) chunks are
\* non-empty (one worker thread is started per non-empty chunk).
C29_Sharding ==
  LET n == _choose_asset_threads(sh.cpus) IN
  /\ DOMAIN sh.chunks = 0..(n - 1)
  /\ \A i \in 0..(sh.keys - 1) :
       /\ Cardinality(Places(i)) = 1
       /\ \A p \in Places(i) : p[1] = i % n
  /\ Cardinality({j \in DOMAIN sh.chunks : sh.chunks[j] # <<>>}) = Min(n, sh.keys)

\* more keys than threads: the chunks take a second and a third key
C29_Witness == sh.cpus = 4 /\ sh.keys = 9 /\ sh.chunks[0] = <<1, 5, 9>> /\ sh.chunks[3] = <<4, 8>>

\* the entry a job thread is at is one that gets installed
AtKeptEntry(r) ==
  /\ r.i \in 1..Len(r.vj.libs)
  /\ r.vj.libs[r.i].art
  /\ ~_should_skip_library_for_version(r.vj.libs[r.i], r.vj.libs)

\* C30: for a library entry that is not skipped, a fetch into the cache is
\* issued if and only if the cache has no file for it or has one with another
\* hash; when the entry is done its file has been copied from a cache file with
\* the declared hash, and the record written then (unless the write raises,
\* see C31) has stage percent done/total.
C30_CacheReuse ==
  [][\A t \in Tids :
       LET r == th[t]  k == r.key  libs == r.vj.libs  path == LibPath(libs[r.i]) IN
       /\ (r.pc = "lib_entry" /\ AtKeptEntry(r) /\ th'[t] # r) =>
            /\ th'[t].pc \in {"dl_enter", "lib_post"}
            /\ (th'[t].pc = "dl_enter" /\ th'[t].ctx = "lib")
                 <=> (path \notin cache \cup files.stale \/ path \in files.stale)
       /\ (r.pc = "lib_done" /\ AtKeptEntry(r) /\ th'[t] # r) =>
            /\ path \in cache /\ path \notin files.stale
            /\ r.copied # <<>> /\ r.copied[Len(r.copied)] = path
            /\ th'[t].pc # "except" =>
                 /\ progress'[k].stage = "libraries"
                 /\ progress'[k].stage_percent = (100 * r.i) \div Len(libs)]_vars

\* the second entry of a file name is done: its first entry replaced a cached
\* file with a wrong hash, the second one reused the cache
C30_Witness ==
  \E t \in Tids :
    /\ th[t].pc = "lib_done" /\ th[t].i = 4 /\ th[t].tries = 0
    /\ sc.stale # {} /\ files.stale = {}
    /\ Len(th[t].copied) = Cardinality(Kept(VJDup.libs))

\* C31: a failure to persist a progress record never changes the course of
\* the install: no job is ended by an exception of a progress write.
C31_WriteNeverAborts ==
  \A t \in Tids : th[t].pc \in Unwinding => th[t].exc # ProgressError

\* C32: a cancel or pause flag set before a job was started has no effect on
\* it: a job is found cancelled, and a thread of it is in the pause wait, only
\* if a control request was made after the job was started.
C32_StaleFlagsIgnored ==
  \A t \in Tids :
    /\ th[t].aborted => nreq > th[t].born
    /\ \A u \in {t} \cup WorkerIds(t) :
         (IsAlive(t) /\ IsAlive(u) /\ JobThread(u) = t /\ (th[u].pausing \/ th[u].hasProg)) =>
           nreq > th[t].born

\* a job started over set flags, with no request made since, ended installed
C32_Witness ==
  \E t \in Tids :
    /\ th[t].pc = "finally" /\ th[t].result = "installed"
    /\ th[t].erased /\ th[t].born = nreq

\* C33: for every document a job works on, an entry with an artifact is
\* skipped if and only if its dotted version, compared component by component
\* as numbers, is lower than the version of another entry of the same module.
C33_SkipIsReference ==
  \A t \in Tids :
    LET libs == th[t].vj.libs IN
    \A n \in 1..Len(libs) :
      libs[n].art =>
        (_should_skip_library_for_version(libs[n], libs) <=>
           \E m \in 1..Len(libs) :
             /\ libs[m].art
             /\ libs[m].head = libs[n].head
             /\ VerLess(libs[n].ver, libs[m].ver))

\* cancel was called on job t while a thread of it was in the pause wait, and
\* the thread has not yet left the wait
CancelledInWait(t) ==
  /\ IsAlive(t) /\ InPauseWait(t)
  /\ cancel_flags[th[t].key] = "True"
  /\ pause_flags[th[t].key] = "absent"

\* C34: a job cancelled while in the pause wait, without a resume, leaves the
\* wait and terminates with status cancelled, unless a transfer or a file
\* operation fails on the way.
C34_CancelEndsPaused ==
  \A t \in Tids :
    (CancelledInWait(t) /\ faults = 0) ~>
      \/ th[t].pc = "finally" /\ th[t].result = "cancelled"
           /\ progress[th[t].key].status = "cancelled"
      \/ th[t].pc = "finally" /\ th[t].exc.msg = "failed to read asset index"
      \/ faults > 0

\* C35: a cancel called after install_version has registered the job stays
\* set until the job's own unwinding removes it: the start-up clearing never
\* erases it.
C35_ClearBeforeObservable ==
  \A t \in Tids :
    (gh[t] /\ IsAlive(t) /\ th[t].pc \notin {"pop_pause"}) =>
      cancel_flags[th[t].key] = "True"

\* C36: for a key with no live thread whose stored record is terminal,
\* get_status returns the stored status, whatever control calls were made.
C36_PausedOnlyLive ==
  \A k \in AllKeys :
    (LiveThreads(k) = {} /\ progress[k].status \in TerminalStatus) =>
      get_install_status(k).status = progress[k].status

\* Byte accounting.  Every size a document declares (client, artifact,
\* classifier, object) is one unit.
\* _compute_total_size(vjson, version_id, full_assets), lines 402-439, called
\* at line 507 when the index of the document is not yet on disk
_compute_total_size(vj) ==
  (IF vj.client = "ok" THEN 1 ELSE 0)
    + Cardinality({n \in 1..Len(vj.libs) : vj.libs[n].art})
    + Cardinality({n \in 1..Len(vj.libs) : vj.libs[n].nat > 0})

\* bytes_done when the assets stage begins: client_size (line 568), a_size of
\* every entry that is not skipped (line 675), n_size of every classifier (line 785)
bytes_before_assets(vj) ==
  (IF vj.client = "ok" THEN 1 ELSE 0)
    + Cardinality(Kept(vj.libs))
    + Cardinality({n \in 1..Len(vj.libs) : vj.libs[n].nat > 0})

\* bytes_done of job record r while its pool runs: size is added with
\* done_assets, under the lock (lines 919-921, 953-955)
bytes_done(r) == bytes_before_assets(r.vj) + r.done

\* total_size of job record r in the assets stage (lines 870-872)
total_size(r) ==
  IF r.full /\ _is_modern_assets(r.key.id)
  THEN bytes_before_assets(r.vj) + Len(r.vj.assets)
  ELSE _compute_total_size(r.vj)

\* C37: while the pool of a job runs, and when the job writes the record that
\* ends the assets stage, bytes_done is at most bytes_total.
C37_BytesWithinTotal ==
  \A t \in Tids : th[t].pc = "join" => bytes_done(th[t]) <= total_size(th[t])

\* C38: when a job that ran a pool writes the record that ends the assets
\* stage at 100 percent, the object of every key of its index is in the store.
C38_AllKeysAccounted ==
  [][\A t \in Tids :
       (th[t].pc = "join" /\ th'[t].pc = "chk5") =>
         \A n \in 1..Len(th[t].vj.assets) : th[t].vj.assets[n] \in objects']_vars

C40_NoPartRemains == fetch.pc \in {"returned", "raised"} => fetch.tmp = "none"

====
